---- MODULE Spec2Model ----
(***************************************************************************)
(* Model of the BookmarkDashboard component                                *)
(* (src/src/components/BookmarkDashboard.tsx) running against the          *)
(* bookmarks table of src/supabase-schema.sql.                             *)
(*                                                                         *)
(* A session is one mounted BookmarkDashboard instance.  Every request     *)
(* (select, insert, delete) is executed by the Store when it is sent and   *)
(* its response is handled by the component in a later step, so feed       *)
(* events and responses interleave freely.  A request is authenticated as  *)
(* the user whose id the issuing closure holds.  React drops state         *)
(* updates of an unmounted component.                                      *)
(***************************************************************************)
EXTENDS Integers, Sequences, FiniteSets, TLC

\* Number of operations the users start in a run: creates and deletes in the
\* session and in other tabs, and changes of the session's user.
MaxOps == 2

Sessions == {"s1"}
Users == {"u1", "u2"}
Ids == 1..(MaxOps + 1)
Times == 1..(MaxOps + 1)
NoId == 0

\* supabase.auth.getUser() without a signed-in user: user is null.
NoUser == "none"

VARIABLES
    store,      \* rows of table bookmarks
    usedIds,    \* primary keys ever assigned (a uuid is never assigned twice)
    clock,      \* the Store's now()
    ops,        \* operations the users have started
    user,       \* user[s]: the user prop of session s
    mounted,    \* mounted[s]: the component is mounted
    bookmarks,  \* useState bookmarks
    loading,    \* useState loading
    adding,     \* useState adding
    deletingId, \* useState deletingId
    errorMsg,   \* useState errorMsg (TRUE: a message is shown)
    fetches,    \* fetches[s]: selects in flight, in issue order
    inserts,    \* inserts in flight
    deletes,    \* deletes in flight
    channels,   \* open realtime channels
    feed,       \* postgres_changes events not yet delivered
    snap,       \* snap[s]: the ids of the select result s handled last in
                \* its present activation (NoSnap: none yet, or an error)
    last        \* the step taken last

vars == <<store, usedIds, clock, ops, user, mounted, bookmarks, loading, adding,
          deletingId, errorMsg, fetches, inserts, deletes, channels, feed, snap, last>>

----------------------------------------------------------------------------
\* Strings are sequences of characters.

Sp == <<" ">>

Http == <<"h", "t", "t", "p", ":", "/", "/">>

Https == <<"h", "t", "t", "p", "s", ":", "/", "/">>

Ftp == <<"f", "t", "p", ":", "/", "/">>

Host == <<"a">>

Name == <<"t">>

\* What the user can have typed into the URL field and into the title field
\* when the form is submitted.
Urls ==
    {<<>>, Sp, Host, Sp \o Host \o Sp, Http \o Host, Https \o Host,
     Sp \o Https \o Host, Ftp \o Host}

Titles == {<<>>, Sp, Name, Sp \o Name \o Sp}

\* The form contents used where the text of a bookmark does not matter.
TypedUrl == Host

TypedTitle == Name

WhiteSpace == {" "}

RECURSIVE TrimStart(_)
TrimStart(str) ==
    IF str # <<>> /\ Head(str) \in WhiteSpace THEN TrimStart(Tail(str)) ELSE str

RECURSIVE TrimEnd(_)
TrimEnd(str) ==
    IF str # <<>> /\ str[Len(str)] \in WhiteSpace
    THEN TrimEnd(SubSeq(str, 1, Len(str) - 1))
    ELSE str

\* String.prototype.trim
Trim(str) == TrimEnd(TrimStart(str))

\* String.prototype.startsWith
StartsWith(str, prefix) ==
    Len(str) >= Len(prefix) /\ SubSeq(str, 1, Len(prefix)) = prefix

\* handleAddBookmark line 90: the form passes when neither field is blank.
ValidNoTrim(url, title) == url # <<>> /\ title # <<>>

Valid(url, title) == Trim(url) # <<>> /\ Trim(title) # <<>>

\* handleAddBookmark lines 96-99: the url of the insert.
FinalUrlHttpsOnly(url) ==
    IF ~StartsWith(Trim(url), Https) THEN Https \o Trim(url) ELSE Trim(url)

FinalUrl(url) ==
    IF ~StartsWith(Trim(url), Http) /\ ~StartsWith(Trim(url), Https)
    THEN Https \o Trim(url)
    ELSE Trim(url)

Bookmark ==
    [id : Ids, user_id : Users, created_at : Times,
     url : {FinalUrl(u) : u \in Urls}, title : {Trim(x) : x \in Titles}]

NoSnap == {NoId}

NoRec == [id |-> NoId, user_id |-> "none", created_at |-> 0, url |-> <<>>, title |-> <<>>]

----------------------------------------------------------------------------
\* Pure helpers

HasId(list, id) == \E i \in DOMAIN list : list[i].id = id

IdsOf(list) == {list[i].id : i \in DOMAIN list}

\* .order("created_at", { ascending: false }); no two rows have the same
\* created_at.
RECURSIVE OrderDesc(_)
OrderDesc(rows) ==
    IF rows = {} THEN <<>>
    ELSE LET newest == CHOOSE b \in rows : \A c \in rows : c.created_at <= b.created_at
         IN <<newest>> \o OrderDesc(rows \ {newest})

\* select * from bookmarks where user_id = u order by created_at desc, under
\* the row-level policy auth.uid() = user_id with auth.uid() = u.
SelectResult(u) == OrderDesc({b \in store : b.user_id = u})

\* INSERT handler: the updater passed to setBookmarks.
InsertUpdaterNoDedup(prev, r) == <<r>> \o prev

InsertUpdaterMoveToFront(prev, r) == <<r>> \o SelectSeq(prev, LAMBDA b : b.id # r.id)

InsertUpdaterIgnore(prev, r) == prev

InsertUpdaterAppend(prev, r) == IF HasId(prev, r.id) THEN prev ELSE prev \o <<r>>

InsertUpdater(prev, r) == IF HasId(prev, r.id) THEN prev ELSE <<r>> \o prev

\* DELETE handler: the updater passed to setBookmarks.
DeleteUpdaterSplice(prev, id) ==
    IF HasId(prev, id)
    THEN SelectSeq(prev, LAMBDA b : b.id # id)
    ELSE SubSeq(prev, 1, Len(prev) - 1)

DeleteUpdaterTruncate(prev, id) ==
    IF HasId(prev, id)
    THEN SubSeq(prev, 1, (CHOOSE i \in DOMAIN prev : prev[i].id = id) - 1)
    ELSE prev

DeleteUpdater(prev, id) == SelectSeq(prev, LAMBDA b : b.id # id)

\* The channels whose filter user_id=eq.<u> matches a changed row.
Subscribers(u) == {c \in channels : c.u = u}

Events(kind, r) == {[s |-> c.s, u |-> c.u, kind |-> kind, rec |-> r] : c \in Subscribers(r.user_id)}

RemoveAt(list, i) == SubSeq(list, 1, i - 1) \o SubSeq(list, i + 1, Len(list))

\* The selects left in flight when the response of the i-th arrives.  A select
\* that was sent before the i-th is from then on late: the response of a select
\* sent after it has been handled.
Superseded(list, i) ==
    [k \in 1..(Len(list) - 1) |->
        IF k < i THEN [list[k] EXCEPT !.late = TRUE] ELSE RemoveAt(list, i)[k]]

\* What the last step did: the handler, whether its request succeeded, and a
\* flag: for a feed handler, whether the row's id was listed before it ran; for
\* a response handler, whether the activation that sent the request had ended.
Step(op, ok, flag) == [op |-> op, ok |-> ok, flag |-> flag]

----------------------------------------------------------------------------
\* The responses the Store can give to the select of fetchBookmarks: the rows
\* of u, or an error.
SelectResponses(u, by) ==
    {[u |-> u, ok |-> TRUE, data |-> SelectResult(u), by |-> by, late |-> FALSE],
     [u |-> u, ok |-> FALSE, data |-> <<>>, by |-> by, late |-> FALSE]}

\* The component has mounted for user u1 on a table holding rows, and its
\* effect has run: the first select is sent and the channel is open.
InitWith(rows) ==
    /\ store = rows
    /\ usedIds = {b.id : b \in store}
    /\ clock = Cardinality(store)
    /\ ops = 0
    /\ user = [s \in Sessions |-> "u1"]
    /\ mounted = [s \in Sessions |-> TRUE]
    /\ bookmarks = [s \in Sessions |-> <<>>]
    /\ loading = [s \in Sessions |-> TRUE]
    /\ adding = [s \in Sessions |-> FALSE]
    /\ deletingId = [s \in Sessions |-> NoId]
    /\ errorMsg = [s \in Sessions |-> FALSE]
    /\ fetches \in [Sessions -> {<<f>> : f \in SelectResponses("u1", NoRec)}]
    /\ inserts = {}
    /\ deletes = {}
    /\ channels = {[s |-> s, u |-> user[s]] : s \in Sessions}
    /\ feed = {}
    /\ snap = [s \in Sessions |-> NoSnap]
    /\ last = Step("init", TRUE, FALSE)

\* Mounted on an empty table.
Init == InitWith({})

\* Mounted on a table that holds a row of the user.
InitSeeded ==
    InitWith({[id |-> 1, user_id |-> "u1", created_at |-> 1,
               url |-> FinalUrl(TypedUrl), title |-> Trim(TypedTitle)]})

\* Mounted on a table that holds two rows of the user.
InitSeededTwo ==
    InitWith({[id |-> 1, user_id |-> "u1", created_at |-> 1,
               url |-> FinalUrl(TypedUrl), title |-> Trim(TypedTitle)],
              [id |-> 2, user_id |-> "u1", created_at |-> 2,
               url |-> FinalUrl(TypedUrl), title |-> Trim(TypedTitle)]})

----------------------------------------------------------------------------
\* setState of a component that is no longer mounted changes nothing.
SetState(f, s, v) == IF mounted[s] THEN [f EXCEPT ![s] = v] ELSE f

\* fetchBookmarks, after the await: the response f of s's i-th select arrives.
FetchResolveSkipEmpty(s, i) ==
    /\ i \in DOMAIN fetches[s]
    /\ LET f == fetches[s][i] IN
        /\ fetches' = [fetches EXCEPT ![s] = Superseded(fetches[s], i)]
        /\ errorMsg' = IF f.ok THEN errorMsg ELSE SetState(errorMsg, s, TRUE)
        /\ bookmarks' = IF f.ok /\ f.data # <<>> THEN SetState(bookmarks, s, f.data) ELSE bookmarks
        /\ loading' = SetState(loading, s, FALSE)
        /\ snap' = SetState(snap, s, IF f.ok THEN IdsOf(f.data) ELSE NoSnap)
        /\ last' = Step(IF f.by = NoRec THEN "fetch" ELSE "refetch", f.ok,
                        ~mounted[s] \/ f.u # user[s])
    /\ UNCHANGED <<store, usedIds, clock, ops, user, mounted, adding, deletingId,
                   inserts, deletes, channels, feed>>

FetchResolve(s, i) ==
    /\ i \in DOMAIN fetches[s]
    /\ LET f == fetches[s][i] IN
        /\ fetches' = [fetches EXCEPT ![s] = Superseded(fetches[s], i)]
        /\ errorMsg' = IF f.ok THEN errorMsg ELSE SetState(errorMsg, s, TRUE)
        /\ bookmarks' = IF f.ok THEN SetState(bookmarks, s, f.data) ELSE bookmarks
        /\ loading' = SetState(loading, s, FALSE)
        /\ snap' = SetState(snap, s, IF f.ok THEN IdsOf(f.data) ELSE NoSnap)
        /\ last' = Step(IF f.by = NoRec THEN "fetch" ELSE "refetch", f.ok,
                        ~mounted[s] \/ f.u # user[s])
    /\ UNCHANGED <<store, usedIds, clock, ops, user, mounted, adding, deletingId,
                   inserts, deletes, channels, feed>>

\* The INSERT handler of the channel runs for event e; the feed may deliver e
\* again later (keep).
FeedInsert(e, keep) ==
    /\ e \in feed
    /\ e.kind = "INSERT"
    /\ feed' = IF keep THEN feed ELSE feed \ {e}
    /\ bookmarks' = SetState(bookmarks, e.s, InsertUpdater(bookmarks[e.s], e.rec))
    /\ last' = Step("INSERT", TRUE, HasId(bookmarks[e.s], e.rec.id))
    /\ UNCHANGED <<store, usedIds, clock, ops, user, mounted, loading, adding, deletingId,
                   errorMsg, fetches, inserts, deletes, channels, snap>>

\* The DELETE handler of the channel runs for event e.
FeedDelete(e, keep) ==
    /\ e \in feed
    /\ e.kind = "DELETE"
    /\ feed' = IF keep THEN feed ELSE feed \ {e}
    /\ bookmarks' = SetState(bookmarks, e.s, DeleteUpdater(bookmarks[e.s], e.rec.id))
    /\ last' = Step("DELETE", TRUE, HasId(bookmarks[e.s], e.rec.id))
    /\ UNCHANGED <<store, usedIds, clock, ops, user, mounted, loading, adding, deletingId,
                   errorMsg, fetches, inserts, deletes, channels, snap>>

\* The feed drops event e without delivering it.
FeedLose(e) ==
    /\ e \in feed
    /\ feed' = feed \ {e}
    /\ last' = Step("env", TRUE, FALSE)
    /\ UNCHANGED <<store, usedIds, clock, ops, user, mounted, bookmarks, loading, adding,
                   deletingId, errorMsg, fetches, inserts, deletes, channels, snap>>

\* The rows the Store can create for an insert {url, title, user_id: u}: a
\* fresh primary key (gen_random_uuid(); the component compares keys only for
\* equality, so keys are taken in increasing order) and created_at = now(),
\* which has advanced since the previous insert.
NewRows(u, url, title) ==
    {[id |-> id, user_id |-> u, created_at |-> clock + 1, url |-> url, title |-> title] :
        id \in {i \in Ids \ usedIds : \A j \in Ids \ usedIds : i <= j}}

\* The user_id of the insert that handleAddBookmark sends (line 104).
InsertUserIdAtMount(s) == "u1"

InsertUserId(s) == user[s]

\* handleAddBookmark up to its await, with url and title in the form.  A blank
\* field ends the handler at line 90.  Otherwise the insert is sent, and the
\* Store creates row r (ok) or fails.
AddBookmark(s, url, title, ok, r) ==
    /\ mounted[s]
    /\ ~adding[s]
    /\ ops < MaxOps
    /\ IF ~Valid(url, title)
       THEN /\ ~ok
            /\ r = NoRec
            /\ last' = Step("blank", FALSE, FALSE)
            /\ UNCHANGED <<store, usedIds, clock, ops, adding, errorMsg, inserts, feed>>
       ELSE /\ ops' = ops + 1
            /\ adding' = [adding EXCEPT ![s] = TRUE]
            /\ errorMsg' = [errorMsg EXCEPT ![s] = FALSE]
            /\ IF ok
               THEN /\ r \in NewRows(InsertUserId(s), FinalUrl(url), Trim(title))
                    /\ store' = store \cup {r}
                    /\ usedIds' = usedIds \cup {r.id}
                    /\ clock' = r.created_at
                    /\ feed' = feed \cup Events("INSERT", r)
               ELSE /\ r = NoRec
                    /\ UNCHANGED <<store, usedIds, clock, feed>>
            /\ inserts' = inserts \cup {[s |-> s, u |-> InsertUserId(s), ok |-> ok, rec |-> r]}
            /\ last' = Step("add", ok, FALSE)
    /\ UNCHANGED <<user, mounted, bookmarks, loading, deletingId, fetches, deletes, channels, snap>>

InsertResolveNoRefetch(ins, resp) ==
    /\ ins \in inserts
    /\ inserts' = inserts \ {ins}
    /\ errorMsg' = IF ins.ok THEN errorMsg ELSE SetState(errorMsg, ins.s, TRUE)
    /\ adding' = SetState(adding, ins.s, FALSE)
    /\ last' = Step("added", ins.ok, ~mounted[ins.s] \/ ins.u # user[ins.s])
    /\ UNCHANGED <<store, usedIds, clock, ops, user, mounted, bookmarks, loading, deletingId,
                   fetches, deletes, channels, feed, snap>>

InsertResolveRefetchAlways(ins, resp) ==
    /\ ins \in inserts
    /\ inserts' = inserts \ {ins}
    /\ errorMsg' = SetState(errorMsg, ins.s, ~ins.ok)
    /\ fetches' = [fetches EXCEPT ![ins.s] =
                      Append(fetches[ins.s],
                             [u |-> ins.u, ok |-> TRUE, data |-> SelectResult(ins.u),
                              by |-> ins.rec, late |-> FALSE])]
    /\ adding' = SetState(adding, ins.s, FALSE)
    /\ last' = Step("added", ins.ok, ~mounted[ins.s] \/ ins.u # user[ins.s])
    /\ UNCHANGED <<store, usedIds, clock, ops, user, mounted, bookmarks, loading, deletingId,
                   deletes, channels, feed, snap>>

InsertResolveStuck(ins, resp) ==
    /\ ins \in inserts
    /\ inserts' = inserts \ {ins}
    /\ IF ins.ok
       THEN /\ resp \in SelectResponses(ins.u, ins.rec)
            /\ errorMsg' = SetState(errorMsg, ins.s, FALSE)
            /\ fetches' = [fetches EXCEPT ![ins.s] = Append(fetches[ins.s], resp)]
            /\ adding' = SetState(adding, ins.s, FALSE)
       ELSE /\ resp = NoRec
            /\ errorMsg' = SetState(errorMsg, ins.s, TRUE)
            /\ UNCHANGED <<fetches, adding>>
    /\ last' = Step("added", ins.ok, ~mounted[ins.s] \/ ins.u # user[ins.s])
    /\ UNCHANGED <<store, usedIds, clock, ops, user, mounted, bookmarks, loading, deletingId,
                   deletes, channels, feed, snap>>

\* handleAddBookmark after its await: the response of insert ins arrives.  On
\* success fetchBookmarks of the render that started the insert is called.
InsertResolve(ins, resp) ==
    /\ ins \in inserts
    /\ inserts' = inserts \ {ins}
    /\ IF ins.ok
       THEN /\ resp \in SelectResponses(ins.u, ins.rec)
            /\ errorMsg' = SetState(errorMsg, ins.s, FALSE)
            /\ fetches' = [fetches EXCEPT ![ins.s] = Append(fetches[ins.s], resp)]
       ELSE /\ resp = NoRec
            /\ errorMsg' = SetState(errorMsg, ins.s, TRUE)
            /\ UNCHANGED fetches
    /\ adding' = SetState(adding, ins.s, FALSE)
    /\ last' = Step("added", ins.ok, ~mounted[ins.s] \/ ins.u # user[ins.s])
    /\ UNCHANGED <<store, usedIds, clock, ops, user, mounted, bookmarks, loading, deletingId,
                   deletes, channels, feed, snap>>

\* delete from bookmarks where id = id, under the row-level policy
\* auth.uid() = user_id with auth.uid() = u: the rows it removes.
DeletedRowsNoPolicy(id, u) == {b \in store : b.id = id}

DeletedRows(id, u) == {b \in store : b.id = id /\ b.user_id = u}

\* handleDeleteBookmark up to its await, from the delete button of a listed
\* bookmark: the delete is sent, and the Store executes it (ok) or fails.  The
\* flag of the step: the Store holds the row for another user.
DeleteBookmark(s, id, ok) ==
    /\ mounted[s]
    /\ HasId(bookmarks[s], id)
    /\ deletingId[s] # id
    /\ ops < MaxOps
    /\ ops' = ops + 1
    /\ deletingId' = [deletingId EXCEPT ![s] = id]
    /\ LET gone == IF ok THEN DeletedRows(id, user[s]) ELSE {} IN
        /\ store' = store \ gone
        /\ feed' = feed \cup UNION {Events("DELETE", b) : b \in gone}
    /\ deletes' = deletes \cup {[s |-> s, id |-> id, ok |-> ok]}
    /\ last' = Step("delete", ok, \E b \in store : b.id = id /\ b.user_id # user[s])
    /\ UNCHANGED <<usedIds, clock, user, mounted, bookmarks, loading, adding, errorMsg,
                   fetches, inserts, channels, snap>>

\* handleDeleteBookmark after its await.
DeleteResolveRemove(d) ==
    /\ d \in deletes
    /\ deletes' = deletes \ {d}
    /\ deletingId' = SetState(deletingId, d.s, NoId)
    /\ bookmarks' = IF d.ok THEN SetState(bookmarks, d.s, DeleteUpdater(bookmarks[d.s], d.id))
                           ELSE bookmarks
    /\ last' = Step("deleted", d.ok, ~mounted[d.s])
    /\ UNCHANGED <<store, usedIds, clock, ops, user, mounted, loading, adding,
                   errorMsg, fetches, inserts, channels, feed, snap>>

DeleteResolve(d) ==
    /\ d \in deletes
    /\ deletes' = deletes \ {d}
    /\ deletingId' = SetState(deletingId, d.s, NoId)
    /\ last' = Step("deleted", d.ok, ~mounted[d.s])
    /\ UNCHANGED <<store, usedIds, clock, ops, user, mounted, bookmarks, loading, adding,
                   errorMsg, fetches, inserts, channels, feed, snap>>

\* The cleanup of the effect that opened channel c: supabase.removeChannel.
CleanupLeak(c) == channels

Cleanup(c) == channels \ {c}

\* The component is rendered with another user: the effect's cleanup runs, then
\* the effect runs again (fetchBookmarks, and a channel for the new user).
ChangeUserReload(s, u, resp) ==
    /\ mounted[s]
    /\ u # user[s]
    /\ ops < MaxOps
    /\ ops' = ops + 1
    /\ resp \in SelectResponses(u, NoRec)
    /\ user' = [user EXCEPT ![s] = u]
    /\ errorMsg' = [errorMsg EXCEPT ![s] = FALSE]
    /\ loading' = [loading EXCEPT ![s] = TRUE]
    /\ fetches' = [fetches EXCEPT ![s] = Append(fetches[s], resp)]
    /\ channels' = Cleanup([s |-> s, u |-> user[s]]) \cup {[s |-> s, u |-> u]}
    /\ feed' = {e \in feed : [s |-> e.s, u |-> e.u] \in channels'}
    /\ snap' = [snap EXCEPT ![s] = NoSnap]
    /\ last' = Step("user", TRUE, FALSE)
    /\ UNCHANGED <<store, usedIds, clock, mounted, bookmarks, adding, deletingId,
                   inserts, deletes>>

ChangeUser(s, u, resp) ==
    /\ mounted[s]
    /\ u # user[s]
    /\ ops < MaxOps
    /\ ops' = ops + 1
    /\ resp \in SelectResponses(u, NoRec)
    /\ user' = [user EXCEPT ![s] = u]
    /\ errorMsg' = [errorMsg EXCEPT ![s] = FALSE]
    /\ fetches' = [fetches EXCEPT ![s] = Append(fetches[s], resp)]
    /\ channels' = Cleanup([s |-> s, u |-> user[s]]) \cup {[s |-> s, u |-> u]}
    /\ feed' = {e \in feed : [s |-> e.s, u |-> e.u] \in channels'}
    /\ snap' = [snap EXCEPT ![s] = NoSnap]
    /\ last' = Step("user", TRUE, FALSE)
    /\ UNCHANGED <<store, usedIds, clock, mounted, bookmarks, loading, adding, deletingId,
                   inserts, deletes>>

\* The component unmounts: the effect's cleanup runs and its state is gone.
Unmount(s) ==
    /\ mounted[s]
    /\ mounted' = [mounted EXCEPT ![s] = FALSE]
    /\ channels' = Cleanup([s |-> s, u |-> user[s]])
    /\ feed' = {e \in feed : [s |-> e.s, u |-> e.u] \in channels'}
    /\ last' = Step("unmount", TRUE, FALSE)
    /\ UNCHANGED <<store, usedIds, clock, ops, user, bookmarks, loading, adding, deletingId,
                   errorMsg, fetches, inserts, deletes, snap>>

\* handleAddBookmark in another tab or device of user u, reduced to what it
\* does to the Store: the insert of row r.  Other tabs are followed while a
\* session is mounted to see what they do.
OtherInsert(u, r) ==
    /\ r \in NewRows(u, FinalUrl(TypedUrl), Trim(TypedTitle))
    /\ \E s \in Sessions : mounted[s]
    /\ ops < MaxOps
    /\ ops' = ops + 1
    /\ store' = store \cup {r}
    /\ usedIds' = usedIds \cup {r.id}
    /\ clock' = r.created_at
    /\ feed' = feed \cup Events("INSERT", r)
    /\ last' = Step("env", TRUE, FALSE)
    /\ UNCHANGED <<user, mounted, bookmarks, loading, adding, deletingId, errorMsg,
                   fetches, inserts, deletes, channels, snap>>

\* handleDeleteBookmark in another tab or device of the owner of row b, reduced
\* to what it does to the Store.
OtherDelete(b) ==
    /\ b \in store
    /\ \E s \in Sessions : mounted[s]
    /\ ops < MaxOps
    /\ ops' = ops + 1
    /\ store' = store \ DeletedRows(b.id, b.user_id)
    /\ feed' = feed \cup Events("DELETE", b)
    /\ last' = Step("env", TRUE, FALSE)
    /\ UNCHANGED <<usedIds, clock, user, mounted, bookmarks, loading, adding, deletingId,
                   errorMsg, fetches, inserts, deletes, channels, snap>>

\* The Home page has been requested and nothing is rendered yet.
InitHome ==
    /\ store = {}
    /\ usedIds = {}
    /\ clock = 0
    /\ ops = 0
    /\ user = [s \in Sessions |-> NoUser]
    /\ mounted = [s \in Sessions |-> FALSE]
    /\ bookmarks = [s \in Sessions |-> <<>>]
    /\ loading = [s \in Sessions |-> TRUE]
    /\ adding = [s \in Sessions |-> FALSE]
    /\ deletingId = [s \in Sessions |-> NoId]
    /\ errorMsg = [s \in Sessions |-> FALSE]
    /\ fetches = [s \in Sessions |-> <<>>]
    /\ inserts = {}
    /\ deletes = {}
    /\ channels = {}
    /\ feed = {}
    /\ snap = [s \in Sessions |-> NoSnap]
    /\ last = Step("request", TRUE, FALSE)

\* Home with getUser() giving u: without a user it redirects to /login and
\* renders nothing; otherwise BookmarkDashboard mounts with user u and its
\* effect runs (the first select is sent, the channel is opened).
HomeNoRedirect(s, u, resp) ==
    /\ last.op = "request"
    /\ ~mounted[s]
    /\ resp \in SelectResponses(u, NoRec)
    /\ user' = [user EXCEPT ![s] = u]
    /\ mounted' = [mounted EXCEPT ![s] = TRUE]
    /\ fetches' = [fetches EXCEPT ![s] = <<resp>>]
    /\ channels' = channels \cup {[s |-> s, u |-> u]}
    /\ last' = Step("init", TRUE, FALSE)
    /\ UNCHANGED <<store, usedIds, clock, ops, bookmarks, loading, adding, deletingId,
                   errorMsg, inserts, deletes, feed, snap>>

Home(s, u, resp) ==
    /\ last.op = "request"
    /\ ~mounted[s]
    /\ IF u = NoUser
       THEN /\ resp = NoRec
            /\ last' = Step("redirect", TRUE, FALSE)
            /\ UNCHANGED <<user, mounted, fetches, channels>>
       ELSE /\ resp \in SelectResponses(u, NoRec)
            /\ user' = [user EXCEPT ![s] = u]
            /\ mounted' = [mounted EXCEPT ![s] = TRUE]
            /\ fetches' = [fetches EXCEPT ![s] = <<resp>>]
            /\ channels' = channels \cup {[s |-> s, u |-> u]}
            /\ last' = Step("init", TRUE, FALSE)
    /\ UNCHANGED <<store, usedIds, clock, ops, bookmarks, loading, adding, deletingId,
                   errorMsg, inserts, deletes, feed, snap>>

\* The steps of a run in which the feed drops no event.
NextDelivered ==
    \/ \E s \in Sessions : \E i \in DOMAIN fetches[s] : FetchResolve(s, i)
    \/ \E e \in feed, keep \in BOOLEAN : FeedInsert(e, keep)
    \/ \E e \in feed, keep \in BOOLEAN : FeedDelete(e, keep)
    \/ \E s \in Sessions, ok \in BOOLEAN :
          \E r \in NewRows(InsertUserId(s), FinalUrl(TypedUrl), Trim(TypedTitle)) \cup {NoRec} :
              AddBookmark(s, TypedUrl, TypedTitle, ok, r)
    \/ \E ins \in inserts : \E resp \in SelectResponses(ins.u, ins.rec) \cup {NoRec} :
          InsertResolve(ins, resp)
    \/ \E s \in Sessions, id \in Ids, ok \in BOOLEAN : DeleteBookmark(s, id, ok)
    \/ \E d \in deletes : DeleteResolve(d)
    \/ \E s \in Sessions, u \in Users : \E resp \in SelectResponses(u, NoRec) :
          ChangeUser(s, u, resp)
    \/ \E s \in Sessions : Unmount(s)
    \/ \E u \in Users : \E r \in NewRows(u, FinalUrl(TypedUrl), Trim(TypedTitle)) :
          OtherInsert(u, r)
    \/ \E b \in store : OtherDelete(b)

Next ==
    \/ NextDelivered
    \/ \E e \in feed : FeedLose(e)

Spec == Init /\ [][Next]_vars

DeliveredSpec == Init /\ [][NextDelivered]_vars

SeededSpec == InitSeeded /\ [][Next]_vars

SeededTwoSpec == InitSeededTwo /\ [][Next]_vars

----------------------------------------------------------------------------
\* A session in which the user starts nothing, with a feed that delivers every
\* event it holds: no event is dropped, and an event of an open channel is
\* handled after finitely many steps.
Consume == \E e \in feed : FeedInsert(e, FALSE) \/ FeedDelete(e, FALSE)

NextLive ==
    \/ \E s \in Sessions : \E i \in DOMAIN fetches[s] : FetchResolve(s, i)
    \/ \E e \in feed, keep \in BOOLEAN : FeedInsert(e, keep)
    \/ \E e \in feed, keep \in BOOLEAN : FeedDelete(e, keep)
    \/ \E s \in Sessions, u \in Users : \E resp \in SelectResponses(u, NoRec) :
          ChangeUser(s, u, resp)
    \/ \E s \in Sessions : Unmount(s)
    \/ \E u \in Users : \E r \in NewRows(u, FinalUrl(TypedUrl), Trim(TypedTitle)) :
          OtherInsert(u, r)
    \/ \E b \in store : OtherDelete(b)

LiveSpec == Init /\ [][NextLive]_vars /\ WF_vars(Consume)

----------------------------------------------------------------------------
\* The form submitted with any contents, in a session that only creates.
NextForm ==
    \/ \E s \in Sessions, url \in Urls, title \in Titles, ok \in BOOLEAN :
          \E r \in NewRows(InsertUserId(s), FinalUrl(url), Trim(title)) \cup {NoRec} :
              AddBookmark(s, url, title, ok, r)
    \/ \E ins \in inserts : \E resp \in SelectResponses(ins.u, ins.rec) \cup {NoRec} :
          InsertResolve(ins, resp)
    \/ \E s \in Sessions : \E i \in DOMAIN fetches[s] : FetchResolve(s, i)

FormSpec == Init /\ [][NextForm]_vars

----------------------------------------------------------------------------
\* A run from the request of the Home page, with the steps of the session it
\* renders and no other tab.
NextHome ==
    \/ \E s \in Sessions, u \in Users \cup {NoUser} :
          \E resp \in SelectResponses(u, NoRec) \cup {NoRec} : Home(s, u, resp)
    \/ \E s \in Sessions : \E i \in DOMAIN fetches[s] : FetchResolve(s, i)
    \/ \E e \in feed, keep \in BOOLEAN : FeedInsert(e, keep)
    \/ \E e \in feed, keep \in BOOLEAN : FeedDelete(e, keep)
    \/ \E s \in Sessions, ok \in BOOLEAN :
          \E r \in NewRows(InsertUserId(s), FinalUrl(TypedUrl), Trim(TypedTitle)) \cup {NoRec} :
              AddBookmark(s, TypedUrl, TypedTitle, ok, r)
    \/ \E ins \in inserts : \E resp \in SelectResponses(ins.u, ins.rec) \cup {NoRec} :
          InsertResolve(ins, resp)
    \/ \E s \in Sessions, id \in Ids, ok \in BOOLEAN : DeleteBookmark(s, id, ok)
    \/ \E d \in deletes : DeleteResolve(d)
    \/ \E s \in Sessions, u \in Users : \E resp \in SelectResponses(u, NoRec) :
          ChangeUser(s, u, resp)
    \/ \E s \in Sessions : Unmount(s)

HomeSpec == InitHome /\ [][NextHome]_vars

----------------------------------------------------------------------------
\* Properties

UserIds(u) == {b.id : b \in {x \in store : x.user_id = u}}

FetchStep(s, i) == i \in DOMAIN fetches[s] /\ FetchResolve(s, i)

InsertStep(e) == e.kind = "INSERT" /\ (FeedInsert(e, TRUE) \/ FeedInsert(e, FALSE))

DeleteStep(e) == e.kind = "DELETE" /\ (FeedDelete(e, TRUE) \/ FeedDelete(e, FALSE))

\* C1: in every reachable state no two elements of a session's bookmarks have
\* the same id.
NoDuplicateIds ==
    \A s \in Sessions : \A i, j \in DOMAIN bookmarks[s] :
        i # j => bookmarks[s][i].id # bookmarks[s][j].id

\* An INSERT event for a listed id was handled and two bookmarks are listed.
NoDuplicateIdsWitness ==
    \E s \in Sessions : last.op = "INSERT" /\ last.flag /\ Len(bookmarks[s]) >= 2

\* C2: once the select result a session handled last shows the Store's rows of
\* its user as they are now, and no select, no insert and no feed event of the
\* session is outstanding, the session lists exactly the ids the Store holds for
\* its user.
Quiescent(s) ==
    /\ mounted[s]
    /\ fetches[s] = <<>>
    /\ \A ins \in inserts : ins.s # s
    /\ \A e \in feed : e.s # s
    /\ snap[s] = UserIds(user[s])

Convergence == \A s \in Sessions : Quiescent(s) => IdsOf(bookmarks[s]) = UserIds(user[s])

\* C3: in every reachable state a session's bookmarks are sorted by created_at
\* descending, rows of equal created_at by id ascending.
OrderInvariant ==
    \A s \in Sessions : \A i, j \in DOMAIN bookmarks[s] :
        i < j => \/ bookmarks[s][i].created_at > bookmarks[s][j].created_at
                 \/ /\ bookmarks[s][i].created_at = bookmarks[s][j].created_at
                    /\ bookmarks[s][i].id < bookmarks[s][j].id

\* C4: a step of the INSERT handler for a row whose id is listed leaves the
\* bookmarks as they are, and after any step of the INSERT handler for row r,
\* handling r once more changes nothing.
IdempotentInsertion ==
    [][\A e \in feed : InsertStep(e) =>
          /\ HasId(bookmarks[e.s], e.rec.id) => bookmarks' = bookmarks
          /\ InsertUpdater(bookmarks'[e.s], e.rec) = bookmarks'[e.s]]_vars

\* An INSERT event for a listed id was handled.
IdempotentInsertionWitness ==
    \E s \in Sessions : last.op = "INSERT" /\ last.flag /\ Len(bookmarks[s]) >= 1

\* C5: a step of the DELETE handler for an id that is not listed leaves the
\* bookmarks and the error message as they are; any step of the DELETE handler
\* for an id leaves the other bookmarks listed, in their order, and the id not
\* listed.
IdempotentRemoval ==
    [][\A e \in feed : DeleteStep(e) =>
          /\ ~HasId(bookmarks[e.s], e.rec.id) =>
                bookmarks' = bookmarks /\ errorMsg' = errorMsg
          /\ bookmarks'[e.s] = SelectSeq(bookmarks[e.s], LAMBDA b : b.id # e.rec.id)]_vars

\* A DELETE event for an id that is not listed was handled while a bookmark was
\* listed.
IdempotentRemovalWitness ==
    \E s \in Sessions : last.op = "DELETE" /\ ~last.flag /\ Len(bookmarks[s]) >= 1

\* C6: the response of a select that was sent before the session unmounted or
\* changed its user leaves the session's bookmarks as they are.
StaleDiscard ==
    [][\A s \in Sessions : \A i \in DOMAIN fetches[s] :
          (FetchStep(s, i) /\ (~mounted[s] \/ fetches[s][i].u # user[s]))
              => bookmarks'[s] = bookmarks[s]]_vars

\* C7: in every reachable state every bookmark a mounted session lists has the
\* user_id of the session's user.
OwnershipInvariant ==
    \A s \in Sessions : mounted[s] =>
        \A i \in DOMAIN bookmarks[s] : bookmarks[s][i].user_id = user[s]

\* C8: the response of a successful insert sends a select, and when the response
\* of that select arrives without error while the session is mounted and the
\* Store still holds the created row, the session lists the row.
ReconcileAfterCreate ==
    [][/\ \A ins \in inserts : \A resp \in SelectResponses(ins.u, ins.rec) :
             (ins.ok /\ InsertResolve(ins, resp)) =>
                 /\ Len(fetches'[ins.s]) = Len(fetches[ins.s]) + 1
                 /\ fetches'[ins.s][Len(fetches'[ins.s])].by = ins.rec
       /\ \A s \in Sessions : \A i \in DOMAIN fetches[s] :
             (/\ FetchStep(s, i)
              /\ fetches[s][i].ok
              /\ fetches[s][i].by \in store
              /\ mounted[s]) => HasId(bookmarks'[s], fetches[s][i].by.id)]_vars

\* The select sent after a create was answered and put the created row into the
\* bookmarks while the row's INSERT event had not been delivered.
ReconcileAfterCreateWitness ==
    \E e \in feed :
        /\ last.op = "refetch" /\ last.ok /\ ~last.flag
        /\ e.kind = "INSERT"
        /\ mounted[e.s]
        /\ e.rec \in store
        /\ HasId(bookmarks[e.s], e.rec.id)

\* C9: under fair delivery, when a row of user u is inserted (deleted) while a
\* session has a channel open for u, the session eventually lists the row (no
\* longer lists it), or its channel has been closed.
Evt(s, kind, r) == [s |-> s, u |-> r.user_id, kind |-> kind, rec |-> r]

CrossSessionSync ==
    \A s \in Sessions :
      \A r \in {b \in Bookmark : /\ b.created_at = b.id
                                /\ b.url = FinalUrl(TypedUrl)
                                /\ b.title = Trim(TypedTitle)} :
        /\ (Evt(s, "INSERT", r) \in feed)
              ~> (HasId(bookmarks[s], r.id) \/ [s |-> s, u |-> r.user_id] \notin channels)
        /\ (Evt(s, "DELETE", r) \in feed)
              ~> (~HasId(bookmarks[s], r.id) \/ [s |-> s, u |-> r.user_id] \notin channels)

\* The INSERT handler has put a row that another tab inserted into the
\* bookmarks of a session.
CrossSessionSyncWitness ==
    \E s \in Sessions :
        /\ last.op = "INSERT" /\ ~last.flag
        /\ mounted[s]
        /\ Len(bookmarks[s]) >= 1

\* C10: in every reachable state every open channel is the channel of a mounted
\* session and of its present user, and every undelivered event is an event of
\* an open channel.
SubscriptionRelease ==
    /\ \A c \in channels : mounted[c.s] /\ user[c.s] = c.u
    /\ \A e \in feed : [s |-> e.s, u |-> e.u] \in channels

\* A session whose select had failed unmounted, and no channel is open.
SubscriptionReleaseWitness ==
    \E s \in Sessions : last.op = "unmount" /\ errorMsg[s] /\ ~mounted[s] /\ channels = {}

\* C11: in every reachable state a session has at most one channel open.
SingleSubscription ==
    \A s \in Sessions : Cardinality({c \in channels : c.s = s}) <= 1

\* The effect has run again for user u2, and the session's one channel is the
\* channel for u2.
SingleSubscriptionWitness ==
    \E s \in Sessions :
        last.op = "user" /\ user[s] = "u2" /\ channels = {[s |-> s, u |-> "u2"]}

\* C12: when the response of a select arrives without error at a mounted
\* session, the session's bookmarks become the rows of the response, in the
\* order of the response, which is created_at descending, and loading becomes
\* false.
SnapshotSuccess ==
    [][\A s \in Sessions : \A i \in DOMAIN fetches[s] :
          (FetchStep(s, i) /\ fetches[s][i].ok /\ mounted[s]) =>
              /\ bookmarks'[s] = fetches[s][i].data
              /\ ~loading'[s]
              /\ \A j, k \in DOMAIN bookmarks'[s] :
                    j < k => bookmarks'[s][j].created_at > bookmarks'[s][k].created_at]_vars

\* A select was answered with two rows, which the session lists.
SnapshotSuccessWitness ==
    \E s \in Sessions :
        /\ last.op \in {"fetch", "refetch"} /\ last.ok
        /\ mounted[s] /\ ~loading[s]
        /\ Len(bookmarks[s]) >= 2

\* C13: when the response of the select of the session's present activation
\* arrives with an error, the error message is set, loading becomes false and
\* the session lists no bookmark.
SnapshotFailure ==
    [][\A s \in Sessions : \A i \in DOMAIN fetches[s] :
          (/\ FetchStep(s, i)
           /\ ~fetches[s][i].ok
           /\ fetches[s][i].by = NoRec
           /\ fetches[s][i].u = user[s]
           /\ mounted[s]) =>
              errorMsg'[s] /\ ~loading'[s] /\ bookmarks'[s] = <<>>]_vars

\* C14: while the select of a mounted session's present activation is in
\* flight, the session lists no bookmark and loading is true.
LoadingUntilSnapshot ==
    \A s \in Sessions :
        (/\ mounted[s]
         /\ \E i \in DOMAIN fetches[s] :
               fetches[s][i].by = NoRec /\ fetches[s][i].u = user[s]) =>
            bookmarks[s] = <<>> /\ loading[s]

\* C15: a step of handleAddBookmark with a URL or a title that is empty after
\* trimming sends no insert and leaves the Store, the feed, the bookmarks, the
\* adding flag and the selects in flight as they are.
ValidationBlocksCreate ==
    [][\A s \in Sessions, url \in Urls, title \in Titles, ok \in BOOLEAN :
          \A r \in NewRows(user[s], FinalUrl(url), Trim(title)) \cup {NoRec} :
              ((Trim(url) = <<>> \/ Trim(title) = <<>>) /\ AddBookmark(s, url, title, ok, r))
                  => UNCHANGED <<inserts, store, feed, bookmarks, adding, fetches>>]_vars

\* The form was submitted with a blank field after an earlier create.
ValidationBlocksCreateWitness ==
    \E s \in Sessions : last.op = "blank" /\ mounted[s] /\ ~adding[s] /\ store # {}

\* C16: a step of handleAddBookmark whose insert succeeds, with a form whose
\* fields are not blank, creates a row whose url is the trimmed URL field if
\* that starts with http:// or https://, and https:// followed by the trimmed
\* URL field otherwise.
UrlSchemeDefault ==
    [][\A s \in Sessions, url \in Urls, title \in Titles :
          (/\ Trim(url) # <<>>
           /\ Trim(title) # <<>>
           /\ \E r \in NewRows(user[s], FinalUrl(url), Trim(title)) :
                 AddBookmark(s, url, title, TRUE, r)) =>
              /\ store' # store
              /\ \A b \in store' \ store :
                    b.url = IF StartsWith(Trim(url), Http) \/ StartsWith(Trim(url), Https)
                            THEN Trim(url)
                            ELSE Https \o Trim(url)]_vars

\* The Store holds a row whose url was typed with http:// and a row whose url
\* got https:// prepended.
UrlSchemeDefaultWitness ==
    /\ last.op = "add" /\ last.ok
    /\ \E b \in store : b.url = Http \o Host
    /\ \E b \in store : b.url = Https \o Ftp \o Host

\* C17: a failed insert leaves the Store as it is, and when its response
\* arrives at a mounted session the error message is set, the adding flag is
\* cleared, no select is sent and the bookmarks are as they were.
CreateFailure ==
    [][/\ \A s \in Sessions :
             AddBookmark(s, TypedUrl, TypedTitle, FALSE, NoRec) =>
                 store' = store /\ feed' = feed /\ bookmarks' = bookmarks
       /\ \A ins \in inserts :
             (~ins.ok /\ InsertResolve(ins, NoRec) /\ mounted[ins.s]) =>
                 /\ errorMsg'[ins.s]
                 /\ ~adding'[ins.s]
                 /\ fetches' = fetches
                 /\ bookmarks' = bookmarks
                 /\ store' = store]_vars

\* The response of a failed insert arrived at a session that lists a bookmark.
CreateFailureWitness ==
    \E s \in Sessions :
        /\ last.op = "added" /\ ~last.ok /\ ~last.flag
        /\ mounted[s] /\ errorMsg[s] /\ ~adding[s]
        /\ Len(bookmarks[s]) >= 1

\* C18: when the response of a failed select, of a failed insert or of a failed
\* delete arrives at a mounted session, the error message is set.
ErrorSurfaced ==
    [][/\ \A s \in Sessions : \A i \in DOMAIN fetches[s] :
             (FetchStep(s, i) /\ ~fetches[s][i].ok /\ mounted[s]) => errorMsg'[s]
       /\ \A ins \in inserts :
             (~ins.ok /\ InsertResolve(ins, NoRec) /\ mounted[ins.s]) => errorMsg'[ins.s]
       /\ \A d \in deletes :
             (~d.ok /\ DeleteResolve(d) /\ mounted[d.s]) => errorMsg'[d.s]]_vars

\* C19: the bookmarks a session of user A lists are the bookmarks it lists in
\* the run in which another user B creates and deletes nothing.  In that run
\* the Store never holds a row of B, so every select sent as B returns no row
\* and the feed holds no event for a row of B, and the handlers give the same
\* list without the rows of B.
WithoutUser(list, u) == SelectSeq(list, LAMBDA b : b.user_id # u)

PrivacyBetweenUsers ==
    \A s \in Sessions : \A u \in Users :
        (mounted[s] /\ user[s] # u) => bookmarks[s] = WithoutUser(bookmarks[s], u)

\* C20: a step of handleDeleteBookmark for an id whose row the Store holds for
\* another user sends the delete and leaves the Store and the feed as they are.
DeleteNotOwned ==
    [][\A s \in Sessions, id \in Ids, ok \in BOOLEAN :
          (DeleteBookmark(s, id, ok) /\ \E b \in store : b.id = id /\ b.user_id # user[s]) =>
              /\ [s |-> s, id |-> id, ok |-> ok] \in deletes'
              /\ store' = store
              /\ feed' = feed]_vars

\* The session sent a delete, which the Store executed, for a listed row of
\* another user, and the Store still holds the row.
DeleteNotOwnedWitness ==
    \E s \in Sessions :
        /\ last.op = "delete" /\ last.ok /\ last.flag
        /\ \E b \in store : b.user_id # user[s] /\ HasId(bookmarks[s], b.id)

\* C21: every insert a step sends carries the id of the session's user as
\* user_id, and the row the Store creates for it is a row of that user.
InsertOwnUser ==
    [][\A ins \in inserts' \ inserts :
          /\ ins.u = user[ins.s]
          /\ ins.ok => (ins.rec \in store' /\ ins.rec.user_id = user[ins.s])]_vars

\* The session created a row after its user had changed to u2.
InsertOwnUserWitness ==
    \E s \in Sessions :
        /\ last.op = "add" /\ last.ok
        /\ user[s] = "u2"
        /\ \E ins \in inserts : ins.s = s /\ ins.rec \in store /\ ins.rec.user_id = "u2"

\* C22: the response of an insert or of a delete that arrives after the session
\* unmounted or changed its user sends no select and leaves the bookmarks,
\* loading and the error message as they are.
QuietAfterDeactivation ==
    [][/\ \A ins \in inserts : \A resp \in SelectResponses(ins.u, ins.rec) \cup {NoRec} :
             (InsertResolve(ins, resp) /\ (~mounted[ins.s] \/ ins.u # user[ins.s])) =>
                 UNCHANGED <<fetches, bookmarks, loading, errorMsg>>
       /\ \A d \in deletes :
             (DeleteResolve(d) /\ ~mounted[d.s]) =>
                 UNCHANGED <<fetches, bookmarks, loading, errorMsg>>]_vars

\* C24: the steps of handleDeleteBookmark leave the bookmarks and the selects in
\* flight as they are, and a step after which a mounted session no longer lists
\* an id it listed is a step of the DELETE handler for that id or the arrival
\* of a select's response.
DeleteOnlyByFeed ==
    [][/\ \A s \in Sessions, id \in Ids, ok \in BOOLEAN :
             DeleteBookmark(s, id, ok) => UNCHANGED <<bookmarks, fetches>>
       /\ \A d \in deletes : DeleteResolve(d) => UNCHANGED <<bookmarks, fetches>>
       /\ \A s \in Sessions : \A id \in IdsOf(bookmarks[s]) \ IdsOf(bookmarks'[s]) :
             \/ \E e \in feed : DeleteStep(e) /\ e.s = s /\ e.rec.id = id
             \/ \E i \in DOMAIN fetches[s] : FetchStep(s, i)]_vars

\* A delete of the session succeeded and its response has arrived, its DELETE
\* event was lost, nothing is in flight, and the session lists the row that the
\* Store no longer holds.
DeleteOnlyByFeedWitness ==
    \E s \in Sessions :
        /\ last.op = "deleted" /\ last.ok
        /\ mounted[s] /\ fetches[s] = <<>> /\ feed = {} /\ inserts = {} /\ deletes = {}
        /\ \E i \in DOMAIN bookmarks[s] : bookmarks[s][i] \notin store

\* C25: the response of a select that arrives after the response of a select
\* sent later has been handled leaves the bookmarks as they are.
LastIssuedWins ==
    [][\A s \in Sessions : \A i \in DOMAIN fetches[s] :
          (FetchStep(s, i) /\ fetches[s][i].late /\ fetches[s][i].u = user[s] /\ mounted[s])
              => bookmarks'[s] = bookmarks[s]]_vars

\* C26: a step of the INSERT handler for a row whose id is not listed puts the
\* row at the front of the bookmarks, followed by the bookmarks listed before in
\* their order, so that one more bookmark is listed.
InsertAtFront ==
    [][\A e \in feed :
          (InsertStep(e) /\ ~HasId(bookmarks[e.s], e.rec.id) /\ mounted[e.s]) =>
              /\ bookmarks'[e.s] = <<e.rec>> \o bookmarks[e.s]
              /\ Len(bookmarks'[e.s]) = Len(bookmarks[e.s]) + 1]_vars

\* The INSERT handler has put a row in front of a listed bookmark.
InsertAtFrontWitness ==
    \E s \in Sessions :
        last.op = "INSERT" /\ ~last.flag /\ mounted[s] /\ Len(bookmarks[s]) >= 2

AddingWhileInFlight ==
    \A s \in Sessions : mounted[s] =>
        /\ adding[s] <=> (\E ins \in inserts : ins.s = s)
        /\ Cardinality({ins \in inserts : ins.s = s}) <= 1

\* The response of a failed insert of the session has arrived and the session
\* has sent its next insert: the flag is set again and one insert is in flight.
AddingWhileInFlightWitness ==
    \E s \in Sessions :
        /\ last.op = "add" /\ ~last.ok /\ ops = 2
        /\ user[s] = "u1" /\ store = {}
        /\ mounted[s] /\ adding[s]
        /\ Cardinality({ins \in inserts : ins.s = s}) = 1

\* C29: while a delete of a mounted session for an id is in flight, deletingId
\* of the session is that id.
DeletingIdWhileInFlight ==
    \A d \in deletes : mounted[d.s] => deletingId[d.s] = d.id

\* C30: a mounted session starts with loading true, loading becomes false when
\* the response of a select arrives and with no other step, and once false it
\* stays false.
LoadingMonotone ==
    [][\A s \in Sessions :
          /\ (last.op = "init") => loading[s]
          /\ (mounted[s] /\ ~loading[s]) => ~loading'[s]
          /\ (mounted[s] /\ \E i \in DOMAIN fetches[s] : FetchStep(s, i)) => ~loading'[s]
          /\ (loading[s] /\ ~loading'[s]) => \E i \in DOMAIN fetches[s] : FetchStep(s, i)]_vars

\* The effect has run again for another user with a select in flight, and
\* loading is false.
LoadingMonotoneWitness ==
    \E s \in Sessions :
        last.op = "user" /\ mounted[s] /\ ~loading[s] /\ fetches[s] # <<>>

\* C31: a session that is mounted, has a select in flight or has a channel open
\* has a user of the identity provider, and after the redirect to /login no
\* session is mounted, no select is in flight and no channel is open.
AuthenticatedOnly ==
    /\ \A s \in Sessions :
          (mounted[s] \/ fetches[s] # <<>> \/ \E c \in channels : c.s = s) => user[s] \in Users
    /\ \A c \in channels : c.u \in Users
    /\ last.op = "redirect" =>
          /\ \A s \in Sessions : ~mounted[s] /\ fetches[s] = <<>>
          /\ channels = {}

\* Home was requested without a signed-in user and has redirected.
AuthenticatedOnlyWitness ==
    last.op = "redirect" /\ \A s \in Sessions : ~mounted[s] /\ user[s] = NoUser

====
